---------------------------- MODULE Spec2Model ----------------------------
(***************************************************************************)
(* A model of the turn-based RPG of src/game.py: the Entity / Player /    *)
(* Quest classes, the static catalogs, and the Game callbacks that the    *)
(* buttons and pop-up windows invoke.  Every Tk callback is one action;   *)
(* the random draws of the code (encounter roll, enemy choice, flee roll) *)
(* are nondeterministic choices of the action.                            *)
(***************************************************************************)
EXTENDS Integers, Sequences, FiniteSets, TLC

VARIABLES
    player,         \* Game.player: a Player record, or NoPlayer
    current_enemy,  \* Game.current_enemy: an Enemy record, or NoEnemy
    buttons,        \* what button_frame holds: "menu", "location", "combat"; "over" once destroyed
    windows,        \* the open Toplevel windows, oldest first
    log,            \* the combat lines Game.log wrote during the last callback
    save_file,      \* the document in rpg_save.json that the start menu offers, or NoFile
    encounters,     \* how many times start_combat has run
    turns,          \* how many times enemy_turn has run
    call            \* the last direct call of a method: its name, argument, receiver before, result

vars == <<player, current_enemy, buttons, windows, log, save_file, encounters, turns, call>>

--------------------------------------------------------------------------
(* Bounds of the model *)

MaxEncounters == 2
MaxTurns == 1
MaxWindows == 1
\* the calls of single methods: the players and the arguments drawn
MaxLevel == 2
MaxHpDrawn == 40
MaxDamage == 45
XpStep == 25
MaxXpGain == 1000
\* the searches of the shrine followed: how many may grant the amulet
MaxGrants == 2
\* the names a drawn save document lists under 'inventory' and under 'spells'
MaxNames == 2
\* the pop-ups a fight may have open at once
MaxPopUps == 2

--------------------------------------------------------------------------
(* Python's None for a name, an item reference, an enemy, a player, a file *)

None == "None"
NoItem == [name |-> None, id |-> 0]
NoEnemy == [name |-> None]
NoPlayer == [name |-> None]
NoFile == [name |-> None]

Max(a, b) == IF a >= b THEN a ELSE b
Min(a, b) == IF a <= b THEN a ELSE b

--------------------------------------------------------------------------
(* The static catalogs *)

world ==
    [ town          |-> [exits |-> {"forest", "swamp"},          enemies |-> {},                         npc |-> "Old Man", secret |-> None],
      forest        |-> [exits |-> {"town", "cave"},             enemies |-> {"Goblin", "Wolf"},         npc |-> None,      secret |-> "Found an Amulet"],
      swamp         |-> [exits |-> {"town", "mountain_pass"},    enemies |-> {"Banshee", "Giant Spider"}, npc |-> "Witch",   secret |-> None],
      cave          |-> [exits |-> {"forest", "boss_room"},      enemies |-> {"Troll", "Stone Golem"},   npc |-> None,      secret |-> None],
      mountain_pass |-> [exits |-> {"swamp", "castle_ruins"},    enemies |-> {"Wolf", "Stone Golem"},    npc |-> None,      secret |-> None],
      castle_ruins  |-> [exits |-> {"mountain_pass"},            enemies |-> {"Cursed Knight", "Troll"}, npc |-> None,      secret |-> None],
      boss_room     |-> [exits |-> {},                           enemies |-> {"Dragon"},                 npc |-> None,      secret |-> None] ]

Locations == DOMAIN world

enemies ==
    [n \in {"Goblin", "Wolf", "Banshee", "Troll", "Giant Spider", "Stone Golem", "Cursed Knight", "Dragon"} |->
        CASE n = "Goblin"        -> [hp |-> 30,  attack |-> 10, defense |-> 5,  xp_reward |-> 25]
          [] n = "Wolf"          -> [hp |-> 40,  attack |-> 15, defense |-> 3,  xp_reward |-> 35]
          [] n = "Banshee"       -> [hp |-> 50,  attack |-> 22, defense |-> 6,  xp_reward |-> 70]
          [] n = "Troll"         -> [hp |-> 80,  attack |-> 25, defense |-> 10, xp_reward |-> 100]
          [] n = "Giant Spider"  -> [hp |-> 60,  attack |-> 20, defense |-> 8,  xp_reward |-> 80]
          [] n = "Stone Golem"   -> [hp |-> 100, attack |-> 20, defense |-> 18, xp_reward |-> 120]
          [] n = "Cursed Knight" -> [hp |-> 90,  attack |-> 30, defense |-> 15, xp_reward |-> 150]
          [] n = "Dragon"        -> [hp |-> 250, attack |-> 40, defense |-> 20, xp_reward |-> 500] ]

EnemyNames == DOMAIN enemies

items ==
    [n \in {"Health Potion", "Stamina Potion", "Iron Sword", "Greatsword", "Leather Armor", "Steel Armor", "Amulet of the Forest"} |->
        CASE n = "Health Potion"        -> [class |-> "Potion", effect |-> "heal",    amount |-> 50, attack_bonus |-> 0,  defense_bonus |-> 0]
          [] n = "Stamina Potion"       -> [class |-> "Potion", effect |-> "stamina", amount |-> 40, attack_bonus |-> 0,  defense_bonus |-> 0]
          [] n = "Iron Sword"           -> [class |-> "Weapon", effect |-> None,      amount |-> 0,  attack_bonus |-> 10, defense_bonus |-> 0]
          [] n = "Greatsword"           -> [class |-> "Weapon", effect |-> None,      amount |-> 0,  attack_bonus |-> 18, defense_bonus |-> 0]
          [] n = "Leather Armor"        -> [class |-> "Armor",  effect |-> None,      amount |-> 0,  attack_bonus |-> 0,  defense_bonus |-> 5]
          [] n = "Steel Armor"          -> [class |-> "Armor",  effect |-> None,      amount |-> 0,  attack_bonus |-> 0,  defense_bonus |-> 12]
          [] n = "Amulet of the Forest" -> [class |-> "Item",   effect |-> None,      amount |-> 0,  attack_bonus |-> 0,  defense_bonus |-> 0] ]

ItemNames == DOMAIN items

spells ==
    [n \in {"Fireball", "Heal"} |->
        CASE n = "Fireball" -> [mana_cost |-> 15, damage |-> 30]
          [] n = "Heal"     -> [mana_cost |-> 20, damage |-> -40] ]

SpellNames == DOMAIN spells

\* npcs[...]["quest"]: the stages of each NPC's quest
npcs ==
    [n \in {"Old Man", "Witch"} |->
        CASE n = "Old Man" ->
                [quest |-> "Slay the Dragon",
                 stages |-> << [type |-> "find_item",  item |-> "Amulet of the Forest", enemy |-> None],
                               [type |-> "kill_enemy", item |-> None,                   enemy |-> "Dragon"] >>]
          [] n = "Witch" ->
                [quest |-> "The Stolen Spellbook",
                 stages |-> << [type |-> "kill_enemy", item |-> None, enemy |-> "Cursed Knight"] >>] ]

NpcNames == DOMAIN npcs
QuestNames == {npcs[n].quest : n \in NpcNames}
QuestStages(q) == npcs[CHOOSE n \in NpcNames : npcs[n].quest = q].stages

\* isinstance(item, Weapon / Armor / Potion)
IsWeapon(item) == item # NoItem /\ items[item.name].class = "Weapon"
IsArmor(item) == item # NoItem /\ items[item.name].class = "Armor"
IsPotion(item) == item # NoItem /\ items[item.name].class = "Potion"
attack_bonus(item) == items[item.name].attack_bonus
defense_bonus(item) == items[item.name].defense_bonus

--------------------------------------------------------------------------
(* class Entity *)

is_alive(e) == e.hp > 0

\* take_damage without the clamp of hp at 0
take_damage_unclamped(e, damage) ==
    LET d1 == IF e.is_defending THEN Max(0, damage \div 2) ELSE damage
        e1 == IF e.is_defending THEN [e EXCEPT !.is_defending = FALSE] ELSE e
        actual_damage == Max(0, d1 - e1.defense)
    IN  [ent |-> [e1 EXCEPT !.hp = @ - actual_damage], ret |-> actual_damage]

\* take_damage that takes the defense off before it halves
take_damage_halving_late(e, damage) ==
    LET d1 == IF e.is_defending THEN Max(0, (damage - e.defense) \div 2)
                                ELSE Max(0, damage - e.defense)
        e1 == IF e.is_defending THEN [e EXCEPT !.is_defending = FALSE] ELSE e
        h == e1.hp - d1
    IN  [ent |-> [e1 EXCEPT !.hp = IF h < 0 THEN 0 ELSE h], ret |-> d1]

\* Entity.take_damage: the entity afterwards and the value returned
take_damage(e, damage) ==
    LET d1 == IF e.is_defending THEN Max(0, damage \div 2) ELSE damage
        e1 == IF e.is_defending THEN [e EXCEPT !.is_defending = FALSE] ELSE e
        actual_damage == Max(0, d1 - e1.defense)
        h == e1.hp - actual_damage
    IN  [ent |-> [e1 EXCEPT !.hp = IF h < 0 THEN 0 ELSE h], ret |-> actual_damage]

\* Enemy(enemy_name, **enemies[enemy_name])
Enemy(n) ==
    [name |-> n, hp |-> enemies[n].hp, max_hp |-> enemies[n].hp,
     attack |-> enemies[n].attack, defense |-> enemies[n].defense,
     is_defending |-> FALSE, xp_reward |-> enemies[n].xp_reward]

--------------------------------------------------------------------------
(* class Player *)

\* an empty dict of quests
NoQuests == [q \in {} |-> None]

\* Player(name, hp, stamina, attack, defense)
Player(n, hp, stamina, attack, defense) ==
    [name |-> n, max_hp |-> hp, hp |-> hp, max_stamina |-> stamina, stamina |-> stamina,
     attack |-> attack, defense |-> defense, is_defending |-> FALSE,
     xp |-> 0, level |-> 1, inventory |-> << >>, weapon |-> NoItem, armor |-> NoItem,
     location |-> "town", quests |-> NoQuests, max_mana |-> 30, mana |-> 30, spells |-> << >>]

InInventory(p, item) == \E i \in 1..Len(p.inventory) : p.inventory[i] = item

add_item(p, item) == [p EXCEPT !.inventory = Append(@, item)]

\* list.remove: the first element equal to item goes (the caller checks it is there)
remove_item(p, item) ==
    LET i == CHOOSE k \in 1..Len(p.inventory) :
                 p.inventory[k] = item /\ \A j \in 1..(k-1) : p.inventory[j] # item
    IN  [p EXCEPT !.inventory = SubSeq(@, 1, i-1) \o SubSeq(@, i+1, Len(@))]

\* equip_item without the step that takes the previous bonus off
equip_item_stacking(p, item) ==
    IF IsWeapon(item)
    THEN [p EXCEPT !.weapon = item, !.attack = @ + attack_bonus(item)]
    ELSE IF IsArmor(item)
    THEN [p EXCEPT !.armor = item, !.defense = @ + defense_bonus(item)]
    ELSE p

equip_item(p, item) ==
    IF IsWeapon(item)
    THEN LET a == IF p.weapon # NoItem THEN p.attack - attack_bonus(p.weapon) ELSE p.attack
         IN  [p EXCEPT !.weapon = item, !.attack = a + attack_bonus(item)]
    ELSE IF IsArmor(item)
    THEN LET d == IF p.armor # NoItem THEN p.defense - defense_bonus(p.armor) ELSE p.defense
         IN  [p EXCEPT !.armor = item, !.defense = d + defense_bonus(item)]
    ELSE p

\* level_up that carries the xp above the threshold over to the new level
level_up_carries_xp(p) ==
    [p EXCEPT !.level = @ + 1, !.xp = @ - p.level * 100,
              !.max_hp = @ + 20, !.hp = p.max_hp + 20,
              !.max_stamina = @ + 10, !.stamina = p.max_stamina + 10,
              !.max_mana = @ + 10, !.mana = p.max_mana + 10,
              !.attack = @ + 5, !.defense = @ + 2]

level_up(p) ==
    [p EXCEPT !.level = @ + 1, !.xp = 0,
              !.max_hp = @ + 20, !.hp = p.max_hp + 20,
              !.max_stamina = @ + 10, !.stamina = p.max_stamina + 10,
              !.max_mana = @ + 10, !.mana = p.max_mana + 10,
              !.attack = @ + 5, !.defense = @ + 2]

\* gain_xp that levels up only above the threshold
gain_xp_strict(p, amount) ==
    LET q == [p EXCEPT !.xp = @ + amount]
    IN  IF q.xp > q.level * 100 THEN level_up(q) ELSE q

gain_xp(p, amount) ==
    LET q == [p EXCEPT !.xp = @ + amount]
    IN  IF q.xp >= q.level * 100 THEN level_up(q) ELSE q

\* the quests of a player: a dict from quest name to Quest, kept as a function
\* on the names held; a Quest's name, stages and reward are those of the catalog
HasQuest(p, q) == q \in DOMAIN p.quests
Quest == [current_stage |-> 0, completed |-> FALSE]

\* advance_stage that steps past the last stage when it completes the quest
advance_stage_overrun(qname, quest) ==
    IF quest.current_stage < Len(QuestStages(qname)) - 1
    THEN [quest |-> [quest EXCEPT !.current_stage = @ + 1], ret |-> FALSE]
    ELSE [quest |-> [quest EXCEPT !.current_stage = @ + 1, !.completed = TRUE], ret |-> TRUE]

\* Quest.advance_stage: the quest afterwards and the value returned
advance_stage(qname, quest) ==
    IF quest.current_stage < Len(QuestStages(qname)) - 1
    THEN [quest |-> [quest EXCEPT !.current_stage = @ + 1], ret |-> FALSE]
    ELSE [quest |-> [quest EXCEPT !.completed = TRUE], ret |-> TRUE]

--------------------------------------------------------------------------
(* The helper functions and the persistence codec *)

\* create_item_from_name: a new instance, told apart from the other instances
\* of its name by id; None when the catalog has no such name
create_item_from_name(n, id) ==
    IF n \in ItemNames THEN [name |-> n, id |-> id] ELSE NoItem

\* create_spell_from_name: spells are used by their catalog values only
create_spell_from_name(n) == IF n \in SpellNames THEN n ELSE None

\* Player.to_dict
to_dict(p) ==
    [name |-> p.name, hp |-> p.hp, max_hp |-> p.max_hp,
     stamina |-> p.stamina, max_stamina |-> p.max_stamina,
     mana |-> p.mana, max_mana |-> p.max_mana,
     attack |-> p.attack, defense |-> p.defense, xp |-> p.xp,
     level |-> p.level, location |-> p.location,
     inventory |-> [i \in 1..Len(p.inventory) |-> p.inventory[i].name],
     weapon |-> IF p.weapon # NoItem THEN p.weapon.name ELSE None,
     armor |-> IF p.armor # NoItem THEN p.armor.name ELSE None,
     quests |-> p.quests,
     spells |-> p.spells]

\* next((item for item in inventory if item.name == n), None)
FirstNamed(inventory, n) ==
    IF \E i \in 1..Len(inventory) : inventory[i].name = n
    THEN inventory[CHOOSE i \in 1..Len(inventory) :
                      inventory[i].name = n /\ \A j \in 1..(i-1) : inventory[j].name # n]
    ELSE NoItem

\* Player.from_dict
from_dict(data) ==
    LET p0 == Player(data.name, data.max_hp, data.max_stamina, 0, 0)
        p1 == [p0 EXCEPT !.hp = data.hp, !.stamina = data.stamina, !.mana = data.mana,
                         !.max_mana = data.max_mana, !.xp = data.xp, !.level = data.level,
                         !.location = data.location,
                         !.attack = 10 + (data.level * 5),
                         !.defense = 3 + (data.level * 2)]
        inventory_items ==
            [i \in 1..Len(data.inventory) |->
                create_item_from_name(data.inventory[i],
                    Cardinality({j \in 1..(i-1) : data.inventory[j] = data.inventory[i]}))]
        p2 == [p1 EXCEPT !.inventory = SelectSeq(inventory_items, LAMBDA it : it # NoItem)]
        weapon_to_equip == IF data.weapon # None THEN FirstNamed(p2.inventory, data.weapon) ELSE NoItem
        p3 == IF weapon_to_equip # NoItem THEN equip_item(p2, weapon_to_equip) ELSE p2
        armor_to_equip == IF data.armor # None THEN FirstNamed(p3.inventory, data.armor) ELSE NoItem
        p4 == IF armor_to_equip # NoItem THEN equip_item(p3, armor_to_equip) ELSE p3
    IN  [p4 EXCEPT !.spells = [i \in 1..Len(data.spells) |-> create_spell_from_name(data.spells[i])],
                   !.quests = data.quests]

--------------------------------------------------------------------------
(* class Game.  A callback works on g, the fields of the game it reads and *)
(* writes; the action that models the callback commits the result.        *)

Log(g, line) == [g EXCEPT !.log = Append(@, line)]

\* a Toplevel window: what it lists and the item its action buttons hold
Window(kind, list) == [kind |-> kind, list |-> list, sel |-> NoItem]
OpenWindow(g, w) == [g EXCEPT !.windows = Append(@, w)]
DestroyWindow(g, w) == [g EXCEPT !.windows = SubSeq(@, 1, w-1) \o SubSeq(@, w+1, Len(@))]

\* the item instances something still refers to
Referenced(g) ==
    {g.player.inventory[i] : i \in 1..Len(g.player.inventory)}
        \cup {g.player.weapon, g.player.armor}
        \cup UNION {{g.windows[w].list[i] : i \in 1..Len(g.windows[w].list)} \cup {g.windows[w].sel}
                        : w \in 1..Len(g.windows)}

\* an id no live instance of that name carries: a new object
FreshId(g, n) ==
    CHOOSE id \in 0..Cardinality(Referenced(g)) :
        /\ [name |-> n, id |-> id] \notin Referenced(g)
        /\ \A j \in 0..(id-1) : [name |-> n, id |-> j] \in Referenced(g)

start_combat(g, enemy_name) ==
    Log([g EXCEPT !.current_enemy = Enemy(enemy_name), !.buttons = "combat",
                  !.encounters = @ + 1],
        <<"appears", enemy_name>>)

\* roll: None when random.random() >= 0.6, else what random.choice picked
show_location(g, roll) ==
    LET g1 == [g EXCEPT !.buttons = "location"]
    IN  IF world[g.player.location].enemies # {} /\ roll # None
        THEN start_combat(g1, roll)
        ELSE g1

\* game_over that reports the defeat and leaves the window standing
game_over_in_words_only(g) == Log(g, <<"game_over">>)

game_over(g) ==
    [Log(g, <<"game_over">>) EXCEPT !.buttons = "over", !.windows = << >>]

enemy_turn(g) ==
    LET r == take_damage(g.player, g.current_enemy.attack)
        g1 == Log([g EXCEPT !.player = r.ent, !.turns = @ + 1], <<"attacks_you", g.current_enemy.name>>)
    IN  IF ~is_alive(g1.player) THEN game_over(g1) ELSE g1

complete_quest(g, qname) ==
    IF qname = "Slay the Dragon"
    THEN [g EXCEPT !.player = add_item(@, create_item_from_name("Greatsword", FreshId(g, "Greatsword")))]
    ELSE IF qname = "The Stolen Spellbook"
    THEN [g EXCEPT !.player.spells = Append(@, create_spell_from_name("Fireball"))]
    ELSE g

\* the loop body with a kill stage that any defeated enemy satisfies
CheckQuest_any_kill(g, qname, defeated_enemy) ==
    LET quest == g.player.quests[qname]
        stage == QuestStages(qname)[quest.current_stage + 1]
        progress ==
            IF stage.type = "kill_enemy" /\ defeated_enemy # None THEN TRUE
            ELSE stage.type = "find_item"
                    /\ \E i \in 1..Len(g.player.inventory) : g.player.inventory[i].name = stage.item
        a == advance_stage(qname, quest)
        g1 == [g EXCEPT !.player.quests[qname] = a.quest]
    IN  IF quest.completed THEN g
        ELSE IF progress THEN (IF a.ret THEN complete_quest(g1, qname) ELSE g1)
        ELSE g

\* the loop body that hands the reward out at every stage passed, not only
\* at the last
CheckQuest_rewards_each_stage(g, qname, defeated_enemy) ==
    LET quest == g.player.quests[qname]
        stage == QuestStages(qname)[quest.current_stage + 1]
        progress ==
            IF stage.type = "kill_enemy" /\ stage.enemy = defeated_enemy THEN TRUE
            ELSE stage.type = "find_item"
                    /\ \E i \in 1..Len(g.player.inventory) : g.player.inventory[i].name = stage.item
        a == advance_stage(qname, quest)
        g1 == [g EXCEPT !.player.quests[qname] = a.quest]
    IN  IF quest.completed THEN g
        ELSE IF progress THEN complete_quest(g1, qname)
        ELSE g

\* the body of check_quest_progress's loop, for one quest held
CheckQuest(g, qname, defeated_enemy) ==
    LET quest == g.player.quests[qname]
        stage == QuestStages(qname)[quest.current_stage + 1]
        progress ==
            IF stage.type = "kill_enemy" /\ stage.enemy = defeated_enemy THEN TRUE
            ELSE stage.type = "find_item"
                    /\ \E i \in 1..Len(g.player.inventory) : g.player.inventory[i].name = stage.item
        a == advance_stage(qname, quest)
        g1 == [g EXCEPT !.player.quests[qname] = a.quest]
    IN  IF quest.completed THEN g
        ELSE IF progress THEN (IF a.ret THEN complete_quest(g1, qname) ELSE g1)
        ELSE g

RECURSIVE CheckQuests(_, _, _)
CheckQuests(g, names, defeated_enemy) ==
    IF names = {} THEN g
    ELSE LET q == CHOOSE x \in names : TRUE
         IN  CheckQuests(CheckQuest(g, q, defeated_enemy), names \ {q}, defeated_enemy)

check_quest_progress(g, defeated_enemy) ==
    CheckQuests(g, DOMAIN g.player.quests, defeated_enemy)

\* win_combat that leaves the defeated enemy where it fell
win_combat_leaves_the_fallen(g, roll) ==
    LET g1 == Log(g, <<"defeated", g.current_enemy.name>>)
        g2 == [g1 EXCEPT !.player = gain_xp(@, g.current_enemy.xp_reward)]
        g3 == check_quest_progress(g2, g.current_enemy.name)
    IN  show_location(g3, roll)

win_combat(g, roll) ==
    LET g1 == Log(g, <<"defeated", g.current_enemy.name>>)
        g2 == [g1 EXCEPT !.player = gain_xp(@, g.current_enemy.xp_reward)]
        g3 == check_quest_progress(g2, g.current_enemy.name)
    IN  show_location([g3 EXCEPT !.current_enemy = NoEnemy], roll)

\* player_attack that strikes past the enemy's defense
player_attack_unopposed(g, roll) ==
    LET r == take_damage([g.current_enemy EXCEPT !.defense = 0], g.player.attack)
        g1 == Log([g EXCEPT !.current_enemy = [r.ent EXCEPT !.defense = g.current_enemy.defense]],
                  <<"you_attack", g.current_enemy.name>>)
    IN  IF ~is_alive(g1.current_enemy) THEN win_combat(g1, roll) ELSE g1

player_attack(g, roll) ==
    LET r == take_damage(g.current_enemy, g.player.attack)
        g1 == Log([g EXCEPT !.current_enemy = r.ent], <<"you_attack", g.current_enemy.name>>)
    IN  IF ~is_alive(g1.current_enemy) THEN win_combat(g1, roll) ELSE g1

player_defend(g) == [g EXCEPT !.player.is_defending = TRUE]

show_spell_selection(g) ==
    OpenWindow(g, Window("spell", [i \in 1..Len(g.player.spells) |-> [name |-> g.player.spells[i], id |-> 0]]))

show_item_selection(g) ==
    LET potions == SelectSeq(g.player.inventory, IsPotion)
    IN  IF potions = << >> THEN Log(g, <<"no_potions">>)
        ELSE OpenWindow(g, Window("item", potions))

\* flee whose failure costs nothing
flee_for_free(g, fled, roll) ==
    IF fled
    THEN show_location([Log(g, <<"fled">>) EXCEPT !.current_enemy = NoEnemy], roll)
    ELSE Log(g, <<"failed_to_flee">>)

\* fled: random.random() < 0.5
flee(g, fled, roll) ==
    IF fled
    THEN show_location([Log(g, <<"fled">>) EXCEPT !.current_enemy = NoEnemy], roll)
    ELSE enemy_turn(Log(g, <<"failed_to_flee">>))

perform_action(g, action, fled, roll) ==
    IF g.current_enemy = NoEnemy \/ ~is_alive(g.current_enemy) THEN g
    ELSE LET g1 == CASE action = "Attack"   -> player_attack(g, roll)
                     [] action = "Defend"   -> player_defend(g)
                     [] action = "Magic"    -> show_spell_selection(g)
                     [] action = "Use Item" -> show_item_selection(g)
                     [] action = "Flee"     -> flee(g, fled, roll)
             player_turn_ended == action \in {"Attack", "Defend"}
         IN  IF player_turn_ended /\ g1.current_enemy # NoEnemy /\ is_alive(g1.current_enemy)
             THEN enemy_turn(g1)
             ELSE g1

\* what cast_spell and use_potion end with
EnemyAnswers(g) ==
    IF g.current_enemy # NoEnemy /\ is_alive(g.current_enemy) THEN enemy_turn(g) ELSE g

\* cast_spell that takes the mana before it looks whether there is enough
cast_spell_pays_first(g, w, i, roll) ==
    LET s == g.windows[w].list[i].name
        g0 == DestroyWindow(g, w)
        g1 == [g0 EXCEPT !.player.mana = @ - spells[s].mana_cost]
        r == take_damage(g1.current_enemy, spells[s].damage)
        g2 == Log([g1 EXCEPT !.current_enemy = r.ent], <<"you_cast", s>>)
        g3 == IF ~is_alive(g2.current_enemy) THEN win_combat(g2, roll) ELSE g2
        heal_amount == 0 - spells[s].damage
        g4 == Log([g1 EXCEPT !.player.hp = Min(g1.player.max_hp, g1.player.hp + heal_amount)],
                  <<"you_cast", s>>)
    IN  IF g0.player.mana >= spells[s].mana_cost
        THEN IF spells[s].damage > 0
             THEN (IF g1.current_enemy = NoEnemy THEN g1 ELSE EnemyAnswers(g3))
             ELSE EnemyAnswers(g4)
        ELSE Log(g1, <<"not_enough_mana">>)

\* cast_spell(spell, window), spell the i-th button of window w.  A damage
\* spell cast with no enemy raises at self.current_enemy.take_damage, after
\* the mana is paid.
cast_spell(g, w, i, roll) ==
    LET s == g.windows[w].list[i].name
        g0 == DestroyWindow(g, w)
        g1 == [g0 EXCEPT !.player.mana = @ - spells[s].mana_cost]
        r == take_damage(g1.current_enemy, spells[s].damage)
        g2 == Log([g1 EXCEPT !.current_enemy = r.ent], <<"you_cast", s>>)
        g3 == IF ~is_alive(g2.current_enemy) THEN win_combat(g2, roll) ELSE g2
        heal_amount == 0 - spells[s].damage
        g4 == Log([g1 EXCEPT !.player.hp = Min(g1.player.max_hp, g1.player.hp + heal_amount)],
                  <<"you_cast", s>>)
    IN  IF g0.player.mana >= spells[s].mana_cost
        THEN IF spells[s].damage > 0
             THEN (IF g1.current_enemy = NoEnemy THEN g1 ELSE EnemyAnswers(g3))
             ELSE EnemyAnswers(g4)
        ELSE Log(g0, <<"not_enough_mana">>)

\* a potion that adds its amount with no regard to the maximum
Drink_uncapped(p, potion) ==
    IF items[potion.name].effect = "heal"
    THEN [p EXCEPT !.hp = p.hp + items[potion.name].amount]
    ELSE IF items[potion.name].effect = "stamina"
    THEN [p EXCEPT !.stamina = p.stamina + items[potion.name].amount]
    ELSE p

\* the effect of a potion on the player (use_potion and use_action alike)
Drink(p, potion) ==
    IF items[potion.name].effect = "heal"
    THEN [p EXCEPT !.hp = Min(p.max_hp, p.hp + items[potion.name].amount)]
    ELSE IF items[potion.name].effect = "stamina"
    THEN [p EXCEPT !.stamina = Min(p.max_stamina, p.stamina + items[potion.name].amount)]
    ELSE p

\* use_potion(potion, window), potion the i-th button of window w.
\* remove_item raises when the potion is no longer held.
use_potion(g, w, i) ==
    LET potion == g.windows[w].list[i]
        g0 == DestroyWindow(g, w)
        g1 == Log([g0 EXCEPT !.player = Drink(@, potion)], <<"used", potion.name>>)
        g2 == [g1 EXCEPT !.player = remove_item(@, potion)]
    IN  IF ~InInventory(g1.player, potion) THEN g1 ELSE EnemyAnswers(g2)

open_inventory_screen(g) == OpenWindow(g, Window("inv", g.player.inventory))

\* on_item_select, the i-th line of window w selected: the action buttons
\* now hold the first item of that name in the inventory, if there is one
on_item_select(g, w, i) ==
    [g EXCEPT !.windows[w].sel = FirstNamed(g.player.inventory, g.windows[w].list[i].name)]

equip_action(g, w) ==
    DestroyWindow([g EXCEPT !.player = equip_item(@, g.windows[w].sel)], w)

\* remove_item raises when the item is no longer held: the window stays
use_action(g, w) ==
    LET item == g.windows[w].sel
        g1 == [g EXCEPT !.player = Drink(@, item)]
    IN  IF ~InInventory(g1.player, item) THEN g1
        ELSE DestroyWindow([g1 EXCEPT !.player = remove_item(@, item)], w)

\* drop_action that forgets to take the bonus of the dropped equipment off
drop_action_keeps_bonus(g, w) ==
    LET item == g.windows[w].sel
        p1 == IF g.player.weapon = item THEN [g.player EXCEPT !.weapon = NoItem] ELSE g.player
        p2 == IF p1.armor = item THEN [p1 EXCEPT !.armor = NoItem] ELSE p1
    IN  IF ~InInventory(p2, item) THEN [g EXCEPT !.player = p2]
        ELSE DestroyWindow([g EXCEPT !.player = remove_item(p2, item)], w)

drop_action(g, w) ==
    LET item == g.windows[w].sel
        p1 == IF g.player.weapon = item
              THEN [g.player EXCEPT !.attack = @ - attack_bonus(item), !.weapon = NoItem]
              ELSE g.player
        p2 == IF p1.armor = item
              THEN [p1 EXCEPT !.defense = @ - defense_bonus(item), !.armor = NoItem]
              ELSE p1
    IN  IF ~InInventory(p2, item) THEN [g EXCEPT !.player = p2]
        ELSE DestroyWindow([g EXCEPT !.player = remove_item(p2, item)], w)

move_player(g, destination, roll) ==
    show_location([g EXCEPT !.player.location = destination], roll)

search_area(g) ==
    LET amulet == create_item_from_name("Amulet of the Forest", FreshId(g, "Amulet of the Forest"))
    IN  IF world[g.player.location].secret = "Found an Amulet"
        THEN IF ~\E i \in 1..Len(g.player.inventory) : g.player.inventory[i].name = amulet.name
             THEN check_quest_progress(
                      Log([g EXCEPT !.player = add_item(@, amulet)], <<"you_find", amulet.name>>),
                      None)
             ELSE Log(g, <<"nothing_of_interest">>)
        ELSE g

talk_to_npc(g, npc_name) ==
    LET quest_name == npcs[npc_name].quest
    IN  IF ~HasQuest(g.player, quest_name)
        THEN [g EXCEPT !.player.quests = (quest_name :> Quest) @@ @]
        ELSE g

\* new_game that forgets the potion
new_game_without_potion(g, roll) ==
    LET p0 == Player("Hero", 100, 50, 15, 5)
        p2 == equip_item(p0, create_item_from_name("Iron Sword", 0))
        p3 == equip_item(p2, create_item_from_name("Leather Armor", 0))
        p4 == [p3 EXCEPT !.spells = Append(@, create_spell_from_name("Heal"))]
    IN  show_location([g EXCEPT !.player = p4], roll)

new_game(g, roll) ==
    LET p0 == Player("Hero", 100, 50, 15, 5)
        p1 == add_item(p0, create_item_from_name("Health Potion", 0))
        p2 == equip_item(p1, create_item_from_name("Iron Sword", 0))
        p3 == equip_item(p2, create_item_from_name("Leather Armor", 0))
        p4 == [p3 EXCEPT !.spells = Append(@, create_spell_from_name("Heal"))]
    IN  show_location([g EXCEPT !.player = p4], roll)

load_game(g, data, roll) ==
    show_location([g EXCEPT !.player = from_dict(data)], roll)

--------------------------------------------------------------------------
(* The game: one action per callback *)

\* rpg_save.json as an earlier run of the game left it: the hero took the
\* Old Man's quest, found the amulet, fought Goblins in the forest up to
\* level 27 and on to 2200 xp, spent the mana and the potion on the way,
\* walked to the cave and saved
LateSave ==
    [name |-> "Hero", hp |-> 620, max_hp |-> 620, stamina |-> 310, max_stamina |-> 310,
     mana |-> 10, max_mana |-> 290, attack |-> 155, defense |-> 62, xp |-> 2200,
     level |-> 27, location |-> "cave",
     inventory |-> <<"Amulet of the Forest">>,
     weapon |-> "Iron Sword", armor |-> "Leather Armor",
     quests |-> ("Slay the Dragon" :> [current_stage |-> 1, completed |-> FALSE]),
     spells |-> <<"Heal">>]

\* rpg_save.json as another earlier run left it: a new hero walked through
\* the forest and the cave into the Dragon's lair, attacked three times,
\* fled, and saved
HurtSave ==
    [name |-> "Hero", hp |-> 10, max_hp |-> 100, stamina |-> 50, max_stamina |-> 50,
     mana |-> 30, max_mana |-> 30, attack |-> 25, defense |-> 10, xp |-> 0,
     level |-> 1, location |-> "boss_room",
     inventory |-> <<"Health Potion">>,
     weapon |-> "Iron Sword", armor |-> "Leather Armor",
     quests |-> NoQuests,
     spells |-> <<"Heal">>]

NoCall == [op |-> None]

Init ==
    /\ player = NoPlayer
    /\ current_enemy = NoEnemy
    /\ buttons = "menu"
    /\ windows = << >>
    /\ log = << >>
    /\ save_file \in {NoFile, LateSave, HurtSave}
    /\ encounters = 0
    /\ turns = 0
    /\ call = NoCall

\* the game as the callback finds it, with a fresh log
G == [player |-> player, current_enemy |-> current_enemy, buttons |-> buttons,
      windows |-> windows, log |-> << >>, encounters |-> encounters, turns |-> turns]

\* the model follows the enemies for MaxTurns turns: a callback that would
\* bring one more is not taken
Commit(g) ==
    /\ g.turns <= MaxTurns
    /\ player' = g.player
    /\ current_enemy' = g.current_enemy
    /\ buttons' = g.buttons
    /\ windows' = g.windows
    /\ log' = g.log
    /\ encounters' = g.encounters
    /\ turns' = g.turns

\* what show_location may draw at loc: no encounter, or one of the roster
Rolls(loc) ==
    {None} \cup (IF encounters < MaxEncounters THEN world[loc].enemies ELSE {})

\* the draws of a callback that reaches show_location only when reaches holds
RollsIf(reaches, loc) == IF reaches THEN Rolls(loc) ELSE {None}

\* whether damage kills the enemy in front of the player
Lethal(damage) ==
    current_enemy # NoEnemy /\ ~is_alive(take_damage(current_enemy, damage).ent)

InGame == buttons \in {"location", "combat"}

NewGameButton ==
    /\ buttons = "menu"
    /\ Commit(new_game(G, None))
    /\ save_file' = NoFile
    /\ UNCHANGED call

LoadGameButton ==
    /\ buttons = "menu"
    /\ save_file # NoFile
    /\ \E roll \in Rolls(save_file.location) : Commit(load_game(G, save_file, roll))
    /\ save_file' = NoFile
    /\ UNCHANGED call

\* save_game, and the program closed and started again after it.  Only the
\* start menu reads the file (load_game is its button alone), so the file is
\* carried from the save to the next start menu and no further: a game that
\* runs has save_file = NoFile, whatever lies on the disk.
SaveGameButton ==
    /\ buttons = "location"
    /\ save_file' = to_dict(player)
    /\ Commit([G EXCEPT !.player = NoPlayer, !.buttons = "menu", !.windows = << >>])
    /\ UNCHANGED call

\* GoButton, had create_location_buttons made a Go button for every
\* location of the world and not only for the exits of this one
GoButton_anywhere ==
    /\ buttons = "location"
    /\ \E destination \in DOMAIN world :
         \E roll \in Rolls(destination) : Commit(move_player(G, destination, roll))
    /\ UNCHANGED <<save_file, call>>

GoButton ==
    /\ buttons = "location"
    /\ \E destination \in world[player.location].exits :
         \E roll \in Rolls(destination) : Commit(move_player(G, destination, roll))
    /\ UNCHANGED <<save_file, call>>

TalkButton ==
    /\ buttons = "location"
    /\ world[player.location].npc # None
    /\ Commit(talk_to_npc(G, world[player.location].npc))
    /\ UNCHANGED <<save_file, call>>

SearchButton ==
    /\ buttons = "location"
    /\ world[player.location].secret # None
    /\ Commit(search_area(G))
    /\ UNCHANGED <<save_file, call>>

InventoryButton ==
    /\ buttons = "location"
    /\ Len(windows) < MaxWindows
    /\ Commit(open_inventory_screen(G))
    /\ UNCHANGED <<save_file, call>>

ListboxSelect ==
    /\ InGame
    /\ \E w \in 1..Len(windows) :
         /\ windows[w].kind = "inv"
         /\ \E i \in 1..Len(windows[w].list) : Commit(on_item_select(G, w, i))
    /\ UNCHANGED <<save_file, call>>

EquipButton ==
    /\ InGame
    /\ \E w \in 1..Len(windows) :
         /\ windows[w].kind = "inv"
         /\ IsWeapon(windows[w].sel) \/ IsArmor(windows[w].sel)
         /\ Commit(equip_action(G, w))
    /\ UNCHANGED <<save_file, call>>

UseButton ==
    /\ InGame
    /\ \E w \in 1..Len(windows) :
         /\ windows[w].kind = "inv"
         /\ IsPotion(windows[w].sel)
         /\ Commit(use_action(G, w))
    /\ UNCHANGED <<save_file, call>>

DropButton ==
    /\ InGame
    /\ \E w \in 1..Len(windows) :
         /\ windows[w].kind = "inv"
         /\ windows[w].sel # NoItem
         /\ Commit(drop_action(G, w))
    /\ UNCHANGED <<save_file, call>>

\* a pop-up closed by its title bar
CloseWindow ==
    /\ InGame
    /\ \E w \in 1..Len(windows) : Commit(DestroyWindow(G, w))
    /\ UNCHANGED <<save_file, call>>

AttackButton ==
    /\ buttons = "combat"
    /\ \E roll \in RollsIf(Lethal(player.attack), player.location) :
         Commit(perform_action(G, "Attack", FALSE, roll))
    /\ UNCHANGED <<save_file, call>>

DefendButton ==
    /\ buttons = "combat"
    /\ Commit(perform_action(G, "Defend", FALSE, None))
    /\ UNCHANGED <<save_file, call>>

MagicButton ==
    /\ buttons = "combat"
    /\ Len(windows) < MaxWindows
    /\ Commit(perform_action(G, "Magic", FALSE, None))
    /\ UNCHANGED <<save_file, call>>

UseItemButton ==
    /\ buttons = "combat"
    /\ Len(windows) < MaxWindows
    /\ Commit(perform_action(G, "Use Item", FALSE, None))
    /\ UNCHANGED <<save_file, call>>

FleeButton ==
    /\ buttons = "combat"
    /\ \E fled \in BOOLEAN :
         \E roll \in RollsIf(fled, player.location) : Commit(perform_action(G, "Flee", fled, roll))
    /\ UNCHANGED <<save_file, call>>

SpellButton ==
    /\ InGame
    /\ \E w \in 1..Len(windows) :
         /\ windows[w].kind = "spell"
         /\ \E i \in 1..Len(windows[w].list) :
              \E roll \in RollsIf(Lethal(spells[windows[w].list[i].name].damage), player.location) :
                   Commit(cast_spell(G, w, i, roll))
    /\ UNCHANGED <<save_file, call>>

PotionButton ==
    /\ InGame
    /\ \E w \in 1..Len(windows) :
         /\ windows[w].kind = "item"
         /\ \E i \in 1..Len(windows[w].list) : Commit(use_potion(G, w, i))
    /\ UNCHANGED <<save_file, call>>

Next ==
    \/ NewGameButton \/ LoadGameButton \/ SaveGameButton
    \/ GoButton \/ TalkButton \/ SearchButton
    \/ InventoryButton \/ ListboxSelect \/ EquipButton \/ UseButton \/ DropButton
    \/ CloseWindow
    \/ AttackButton \/ DefendButton \/ MagicButton \/ UseItemButton \/ FleeButton
    \/ SpellButton \/ PotionButton

Spec == Init /\ [][Next]_vars

--------------------------------------------------------------------------
(* Properties of the game *)

Names(inventory) == [i \in 1..Len(inventory) |-> inventory[i].name]

\* C1: for every player the game reaches, from_dict(to_dict(p)) has p's
\* location, level, xp and inventory item names in p's order, and p's
\* attack and defense
C1_RoundTripKeepsPlayer ==
    player # NoPlayer =>
        LET q == from_dict(to_dict(player))
        IN  /\ q.location = player.location
            /\ q.level = player.level
            /\ q.xp = player.xp
            /\ Names(q.inventory) = Names(player.inventory)
            /\ q.attack = player.attack
            /\ q.defense = player.defense

BonusOfWeapon(p) == IF p.weapon # NoItem THEN attack_bonus(p.weapon) ELSE 0
BonusOfArmor(p) == IF p.armor # NoItem THEN defense_bonus(p.armor) ELSE 0

\* C2: in every state of the game, attack is 10 + 5 * level plus the bonus
\* of the weapon equipped (0 with none), and defense is 3 + 2 * level plus
\* the bonus of the armor equipped (0 with none)
C2_StatsAreBasePlusEquipment ==
    player # NoPlayer =>
        /\ player.attack = 10 + 5 * player.level + BonusOfWeapon(player)
        /\ player.defense = 3 + 2 * player.level + BonusOfArmor(player)

\* C2's case: the hero has levelled up in this run and holds, equipped, a
\* weapon taken from the inventory
C2_Witness ==
    /\ player # NoPlayer
    /\ player.level = 28
    /\ player.weapon.name = "Greatsword"
    /\ InInventory(player, player.weapon)

\* C3: in every state of the game, the weapon equipped is none or an element
\* of the inventory, and so is the armor equipped
C3_EquipmentIsInInventory ==
    player # NoPlayer =>
        /\ player.weapon = NoItem \/ InInventory(player, player.weapon)
        /\ player.armor = NoItem \/ InInventory(player, player.armor)

--------------------------------------------------------------------------
(* Single calls of Entity.take_damage and Player.gain_xp, on a player or   *)
(* an enemy the game can hold                                              *)

\* Game.__init__: no player, no enemy, the start menu
NoGame ==
    [player |-> NoPlayer, current_enemy |-> NoEnemy, buttons |-> "menu",
     windows |-> << >>, log |-> << >>, encounters |-> 0, turns |-> 0]

\* the player new_game builds
Hero == new_game(NoGame, None).player

\* the hero after l - 1 calls of level_up
RECURSIVE Levelled(_)
Levelled(l) == IF l <= 1 THEN Hero ELSE level_up(Levelled(l - 1))

PlayersDrawn ==
    {[Levelled(l) EXCEPT !.xp = x, !.hp = h, !.is_defending = d] :
        l \in 1..MaxLevel, x \in {y \in 0..(MaxLevel * 100) : y % XpStep = 0},
        h \in 1..MaxHpDrawn, d \in BOOLEAN}

EnemiesDrawn ==
    {[Enemy(n) EXCEPT !.hp = h, !.is_defending = d] :
        n \in EnemyNames, h \in 1..MaxHpDrawn, d \in BOOLEAN}

Damages == (0 - MaxDamage)..MaxDamage
XpAmounts == {enemies[n].xp_reward : n \in EnemyNames} \cup {0, MaxXpGain}

InitCalls ==
    /\ \/ player \in {p \in PlayersDrawn : p.xp < p.level * 100} /\ current_enemy = NoEnemy
       \/ player = NoPlayer /\ current_enemy \in {e \in EnemiesDrawn : e.hp <= e.max_hp}
    /\ buttons = "combat"
    /\ windows = << >>
    /\ log = << >>
    /\ save_file = NoFile
    /\ encounters = 0
    /\ turns = 0
    /\ call = NoCall

PlayerTakesDamage ==
    /\ call = NoCall
    /\ player # NoPlayer
    /\ \E damage \in Damages :
         LET r == take_damage(player, damage)
         IN  /\ player' = r.ent
             /\ call' = [op |-> "take_damage", arg |-> damage, before |-> player, ret |-> r.ret]
    /\ UNCHANGED <<current_enemy, buttons, windows, log, save_file, encounters, turns>>

EnemyTakesDamage ==
    /\ call = NoCall
    /\ current_enemy # NoEnemy
    /\ \E damage \in Damages :
         LET r == take_damage(current_enemy, damage)
         IN  /\ current_enemy' = r.ent
             /\ call' = [op |-> "take_damage", arg |-> damage, before |-> current_enemy, ret |-> r.ret]
    /\ UNCHANGED <<player, buttons, windows, log, save_file, encounters, turns>>

PlayerGainsXp ==
    /\ call = NoCall
    /\ player # NoPlayer
    /\ \E amount \in XpAmounts :
         /\ player' = gain_xp(player, amount)
         /\ call' = [op |-> "gain_xp", arg |-> amount, before |-> player, ret |-> None]
    /\ UNCHANGED <<current_enemy, buttons, windows, log, save_file, encounters, turns>>

NextCalls == PlayerTakesDamage \/ EnemyTakesDamage \/ PlayerGainsXp

SpecCalls == InitCalls /\ [][NextCalls]_vars

\* the entity the last call was made on, as the call left it
Callee == IF player # NoPlayer THEN player ELSE current_enemy

\* C4: for every entity and every damage amount, after take_damage returns
\* hp is at least 0 and is_defending is false, whatever is_defending was
C4_DamageLeavesHpAndGuardDown ==
    call.op = "take_damage" => Callee.hp >= 0 /\ ~Callee.is_defending

\* C4's case: a defending entity took more net damage than it had hp
C4_Witness ==
    /\ call.op = "take_damage"
    /\ call.before.is_defending
    /\ call.ret > call.before.hp
    /\ Callee.hp = 0

\* the net damage as the specification words it
NetDamage(e, amount) ==
    IF e.is_defending THEN Max(0, (amount \div 2) - e.defense)
                      ELSE Max(0, amount - e.defense)

\* C5: take_damage(amount) returns max(0, amount // 2 - defense) when the
\* entity is defending and max(0, amount - defense) otherwise, sets hp to
\* max(0, old hp - net), and changes no field but hp and is_defending
C5_DamageIsNetOfDefense ==
    call.op = "take_damage" =>
        LET net == NetDamage(call.before, call.arg)
        IN  /\ call.ret = net
            /\ Callee.hp = Max(0, call.before.hp - net)
            /\ [Callee EXCEPT !.hp = 0, !.is_defending = FALSE]
                    = [call.before EXCEPT !.hp = 0, !.is_defending = FALSE]

\* C5's case: a defending entity took an odd amount, halved downwards, and
\* some of it got through the defense without killing
C5_Witness ==
    /\ call.op = "take_damage"
    /\ call.before.is_defending
    /\ call.arg % 2 = 1
    /\ call.ret = (call.arg - 1) \div 2 - call.before.defense
    /\ call.ret > 0
    /\ Callee.hp = call.before.hp - call.ret
    /\ Callee.hp > 0

\* C7: gain_xp(amount) adds amount to xp and, when the sum reaches
\* level * 100, levels up exactly once however large amount is: level + 1,
\* xp 0, max_hp + 20, max_stamina + 10, max_mana + 10, hp, stamina and mana
\* at the new maxima, attack + 5, defense + 2; otherwise level and maxima
\* stay as they were
C7_GainXpLevelsUpOnce ==
    call.op = "gain_xp" =>
        LET b == call.before
        IN  IF b.xp + call.arg >= b.level * 100
            THEN player = [b EXCEPT !.level = b.level + 1, !.xp = 0,
                                    !.max_hp = b.max_hp + 20, !.hp = b.max_hp + 20,
                                    !.max_stamina = b.max_stamina + 10,
                                    !.stamina = b.max_stamina + 10,
                                    !.max_mana = b.max_mana + 10, !.mana = b.max_mana + 10,
                                    !.attack = b.attack + 5, !.defense = b.defense + 2]
            ELSE player = [b EXCEPT !.xp = b.xp + call.arg]

\* C7's case: an amount worth many levels brought one level
C7_Witness ==
    /\ call.op = "gain_xp"
    /\ call.arg = MaxXpGain
    /\ call.before.level = 1
    /\ call.before.hp < call.before.max_hp
    /\ player.level = 2
    /\ player.xp = 0
    /\ player.hp = player.max_hp

--------------------------------------------------------------------------
(* Equipping and dropping through the inventory screen, on players that    *)
(* hold the weapons and armors of the catalog                              *)

\* save documents of a hero of level l who holds the four pieces of
\* equipment of the catalog, with weapon w and armor a equipped (or None)
OutfitSave(l, w, a) ==
    [to_dict(Levelled(l)) EXCEPT
        !.inventory = <<"Iron Sword", "Greatsword", "Leather Armor", "Steel Armor">>,
        !.weapon = w, !.armor = a]

\* the players those documents load as, and the hero of a new game after
\* the Old Man's reward: sword and armor worn but not held, a Greatsword held
PlayersOutfitted ==
    {from_dict(OutfitSave(l, w, a)) :
        l \in 1..MaxLevel, w \in {None, "Iron Sword", "Greatsword"},
        a \in {None, "Leather Armor", "Steel Armor"}}
    \cup {add_item(Levelled(l), create_item_from_name("Greatsword", 0)) : l \in 1..MaxLevel}

InitOutfit ==
    /\ player \in PlayersOutfitted
    /\ current_enemy = NoEnemy
    /\ buttons = "location"
    /\ windows = << >>
    /\ log = << >>
    /\ save_file = NoFile
    /\ encounters = 0
    /\ turns = 0
    /\ call = NoCall

\* the last call without the one before it
LastCall == IF call = NoCall THEN NoCall
            ELSE [op |-> call.op, arg |-> call.arg, before |-> call.before]

\* Inventory, the i-th line selected, Equip
EquipFlow ==
    /\ buttons = "location"
    /\ \E i \in 1..Len(player.inventory) :
         LET g == on_item_select(open_inventory_screen(G), 1, i)
         IN  /\ IsWeapon(g.windows[1].sel) \/ IsArmor(g.windows[1].sel)
             /\ Commit(equip_action(g, 1))
             /\ call' = [op |-> "equip", arg |-> g.windows[1].sel, before |-> player,
                         prev |-> LastCall]
    /\ UNCHANGED save_file

\* Inventory, the i-th line selected, Drop
DropFlow ==
    /\ buttons = "location"
    /\ \E i \in 1..Len(player.inventory) :
         LET g == on_item_select(open_inventory_screen(G), 1, i)
         IN  /\ g.windows[1].sel # NoItem
             /\ Commit(drop_action(g, 1))
             /\ call' = [op |-> "drop", arg |-> g.windows[1].sel, before |-> player,
                         prev |-> LastCall]
    /\ UNCHANGED save_file

NextOutfit == EquipFlow \/ DropFlow

SpecOutfit == InitOutfit /\ [][NextOutfit]_vars

BaseAttack(p) == 10 + 5 * p.level
BaseDefense(p) == 3 + 2 * p.level

\* equipping A then B leaves the base plus B's bonus
EquipThenEquip ==
    call.op = "equip" /\ call.prev.op = "equip" =>
        /\ IsWeapon(call.arg) /\ IsWeapon(call.prev.arg) =>
               player.attack = BaseAttack(player) + attack_bonus(call.arg)
        /\ IsArmor(call.arg) /\ IsArmor(call.prev.arg) =>
               player.defense = BaseDefense(player) + defense_bonus(call.arg)

\* equipping what is equipped already changes nothing
EquipAgain ==
    call.op = "equip" =>
        /\ call.before.weapon = call.arg => player.attack = call.before.attack
        /\ call.before.armor = call.arg => player.defense = call.before.defense

\* the last two calls equipped an item and then dropped it
EquippedThenDropped ==
    call.op = "drop" /\ call.prev.op = "equip" /\ call.arg = call.prev.arg

\* C6 as stated: equipping A then B leaves the base plus B's bonus;
\* equipping an item and then dropping it restores the attack (defense) to
\* its value before the equip; equipping the equipped item again changes
\* nothing
C6_EquipDropRestoresAlways ==
    /\ EquipThenEquip
    /\ EquipAgain
    /\ EquippedThenDropped =>
          /\ IsWeapon(call.arg) => player.attack = call.prev.before.attack
          /\ IsArmor(call.arg) => player.defense = call.prev.before.defense

\* C6, amended: equipping A then B leaves the base plus B's bonus;
\* equipping an item and then dropping it restores the attack (defense) to
\* its value before the equip when no weapon (armor) was equipped before
\* the equip, and otherwise leaves the base value with nothing equipped;
\* equipping the equipped item again changes nothing
C6_EquipDropRestoresFromBare ==
    /\ EquipThenEquip
    /\ EquipAgain
    /\ EquippedThenDropped =>
          /\ IsWeapon(call.arg) =>
                /\ player.weapon = NoItem
                /\ player.attack = BaseAttack(player)
                /\ call.prev.before.weapon = NoItem => player.attack = call.prev.before.attack
          /\ IsArmor(call.arg) =>
                /\ player.armor = NoItem
                /\ player.defense = BaseDefense(player)
                /\ call.prev.before.armor = NoItem => player.defense = call.prev.before.defense

\* C6's case: a weapon equipped on a bare hand and dropped again, the
\* attack back at what it was
C6_Witness ==
    /\ EquippedThenDropped
    /\ IsWeapon(call.arg)
    /\ call.prev.before.weapon = NoItem
    /\ call.before.attack = call.prev.before.attack + attack_bonus(call.arg)
    /\ player.attack = call.prev.before.attack

--------------------------------------------------------------------------
(* Quests and fleeing, over the runs of the game *)

SlayTheDragon == "Slay the Dragon"
HoldsQuest(p) == p # NoPlayer /\ HasQuest(p, SlayTheDragon)
HasAmulet(p) == \E i \in 1..Len(p.inventory) : p.inventory[i].name = "Amulet of the Forest"

\* the enemies a callback's log reports as defeated
DefeatedIn(l) == {l[i][2] : i \in {j \in 1..Len(l) : l[j][1] = "defeated"}}

\* the callback of this step ran check_quest_progress: it won a fight, or
\* its search found the amulet
ProgressChecked ==
    DefeatedIn(log') # {} \/ \E i \in 1..Len(log') : log'[i][1] = "you_find"

\* what C8 says of one step of a game that holds the quest
SlayTheDragonStep ==
    LET quest == player.quests[SlayTheDragon]
        after == player'.quests[SlayTheDragon]
    IN  /\ quest.current_stage = 0 /\ ~quest.completed =>
              IF ProgressChecked /\ HasAmulet(player')
              THEN after = [current_stage |-> 1, completed |-> FALSE]
              ELSE after = quest
        /\ quest.current_stage = 1 /\ ~quest.completed =>
              IF "Dragon" \in DefeatedIn(log')
              THEN after = [current_stage |-> 1, completed |-> TRUE]
              ELSE after = quest

\* C8: 'Slay the Dragon' held at stage 0 moves to stage 1, not completed,
\* on a progress check with the Amulet of the Forest in the inventory; at
\* stage 1 a progress check with defeated enemy 'Dragon' completes it with
\* the stage still 1; a check whose event does not match the current stage
\* changes neither the stage nor completed
C8_SlayTheDragonAdvances ==
    [][HoldsQuest(player) /\ HoldsQuest(player') => SlayTheDragonStep]_vars

\* C8's case: the Dragon has just been defeated and the quest, which was at
\* stage 1, is completed
C8_Witness ==
    /\ HoldsQuest(player)
    /\ "Dragon" \in DefeatedIn(log)
    /\ player.quests[SlayTheDragon] = [current_stage |-> 1, completed |-> TRUE]
    /\ HasAmulet(player)

\* the quests of the player, or of the saved player while the menu shows
QuestsHeld ==
    IF player # NoPlayer THEN player.quests
    ELSE IF save_file # NoFile THEN save_file.quests
    ELSE NoQuests

QuestsInRange ==
    \A q \in DOMAIN QuestsHeld :
        /\ 0 <= QuestsHeld[q].current_stage
        /\ QuestsHeld[q].current_stage < Len(QuestStages(q))
        /\ QuestsHeld[q].completed => QuestsHeld[q].current_stage = Len(QuestStages(q)) - 1

QuestsOnlyAdvance ==
    \A q \in DOMAIN QuestsHeld \cap DOMAIN QuestsHeld' :
        /\ QuestsHeld[q].completed => QuestsHeld'[q].completed
        /\ QuestsHeld'[q].current_stage >= QuestsHeld[q].current_stage

\* C9: every quest held has 0 <= current_stage < number of stages, and
\* current_stage at the last index when completed; completed never goes
\* back to false and current_stage never decreases
C9_QuestsStayInRangeAndAdvance ==
    [][QuestsInRange /\ QuestsInRange' /\ QuestsOnlyAdvance]_vars

\* C9's case: a quest was taken, advanced and completed
C9_Witness ==
    /\ player # NoPlayer
    /\ \E q \in DOMAIN player.quests :
         /\ player.quests[q].completed
         /\ player.quests[q].current_stage = Len(QuestStages(q)) - 1
         /\ player.quests[q].current_stage > 0

\* what a Flee can bring about
EnemyDiscarded == current_enemy' = NoEnemy \/ encounters' = encounters + 1
EnemyTookOneTurn == turns' = turns + 1
Defeated == buttons' = "over"

\* C10 as stated: every Flee ends the combat with the current enemy or has
\* that enemy take exactly one turn, never both and never neither; the
\* combat ends when the enemy is discarded or the player is defeated
C10_FleeEndsCombatOrGivesTurn ==
    [][FleeButton =>
          /\ turns' <= turns + 1
          /\ (EnemyDiscarded \/ Defeated) # EnemyTookOneTurn]_vars

\* C10, amended: every Flee either succeeds, the enemy discarded without a
\* turn and the player as they were, or fails, the same enemy taking exactly
\* one turn; after a failed Flee the fight goes on unless that turn brought
\* the player's hp to 0, which ends the game in defeat
C10_FleeSucceedsOrGivesTurn ==
    [][FleeButton =>
          \/ /\ EnemyDiscarded
             /\ turns' = turns
             /\ ~Defeated
             /\ player' = player
          \/ /\ current_enemy' = current_enemy
             /\ EnemyTookOneTurn
             /\ player' = take_damage(player, current_enemy.attack).ent
             /\ Defeated <=> player'.hp = 0
             /\ ~Defeated => buttons' = "combat"]_vars

\* C10's case: a Flee has just failed and the enemy has struck a player who
\* lives on
C10_Witness ==
    /\ buttons = "combat"
    /\ Len(log) = 2
    /\ log[1] = <<"failed_to_flee">>
    /\ log[2] = <<"attacks_you", current_enemy.name>>
    /\ player.hp > 0
    /\ player.hp < player.max_hp

--------------------------------------------------------------------------
(* The first fight of a new game *)

\* the callback of this step was an Attack on a Goblin by a player of attack 25
AttacksGoblin ==
    /\ player # NoPlayer
    /\ player.attack = 25
    /\ current_enemy # NoEnemy
    /\ current_enemy.name = "Goblin"
    /\ Len(log') >= 1
    /\ log'[1] = <<"you_attack", "Goblin">>

\* the fight with the Goblin ended in Victory and paid the Goblin's 25 xp
GoblinVictory ==
    /\ DefeatedIn(log') = {"Goblin"}
    /\ current_enemy' = NoEnemy \/ encounters' = encounters + 1
    /\ IF player.xp + 25 >= player.level * 100
       THEN player'.level = player.level + 1 /\ player'.xp = 0
       ELSE player'.level = player.level /\ player'.xp = player.xp + 25

\* C11 as stated: with attack 25, one Attack on a Goblin met in the forest
\* (hp 30, attack 10, defense 5) leaves it 5 hp, and a second Attack ends
\* the combat in Victory and awards exactly 25 xp
C11_GoblinFallsFromFive ==
    [][AttacksGoblin =>
          /\ current_enemy = Enemy("Goblin") =>
                current_enemy' = [current_enemy EXCEPT !.hp = 5]
          /\ current_enemy = [Enemy("Goblin") EXCEPT !.hp = 5] => GoblinVictory]_vars

\* C11, amended: the first Attack leaves the Goblin 30 - (25 - 5) = 10 hp,
\* and the second Attack ends the combat in Victory and awards 25 xp
C11_GoblinFallsFromTen ==
    [][AttacksGoblin =>
          /\ current_enemy = Enemy("Goblin") =>
                current_enemy' = [current_enemy EXCEPT !.hp = 10]
          /\ current_enemy = [Enemy("Goblin") EXCEPT !.hp = 10] => GoblinVictory]_vars

\* C11's case: the hero of a new game stands in the forest, the Goblin
\* just defeated with the second Attack, 25 xp earned
C11_Witness ==
    /\ player # NoPlayer
    /\ player.location = "forest"
    /\ player.attack = 25
    /\ player.level = 1
    /\ player.xp = 25
    /\ turns = 1
    /\ DefeatedIn(log) = {"Goblin"}
    /\ current_enemy = NoEnemy

--------------------------------------------------------------------------
(* The start of a game *)

\* the loadout C12 lists
StartingLoadout(p) ==
    /\ p.hp = 100 /\ p.max_hp = 100
    /\ p.stamina = 50 /\ p.max_stamina = 50
    /\ p.mana = 30 /\ p.max_mana = 30
    /\ p.level = 1 /\ p.xp = 0
    /\ p.location = "town"
    /\ p.weapon.name = "Iron Sword" /\ p.attack = 15 + 10
    /\ p.armor.name = "Leather Armor" /\ p.defense = 5 + 5
    /\ Names(p.inventory) = <<"Health Potion">>
    /\ p.spells = <<"Heal">>
    /\ DOMAIN p.quests = {}
    /\ ~p.is_defending

\* C12: New Game always produces the same player: hp 100/100, stamina
\* 50/50, mana 30/30, level 1, xp 0, in the town, attack 15 and defense 5
\* plus Iron Sword and Leather Armor equipped (25 and 10), exactly one
\* Health Potion held, the Heal spell known, no quests
C12_NewGameGivesStartingLoadout ==
    [][NewGameButton => StartingLoadout(player') /\ current_enemy' = NoEnemy]_vars

\* C12's case: New Game has been pressed and the town is shown, no enemy
\* there
C12_Witness ==
    /\ player # NoPlayer
    /\ StartingLoadout(player)
    /\ current_enemy = NoEnemy
    /\ buttons = "location"
    /\ save_file = NoFile
    /\ log = << >>

--------------------------------------------------------------------------
(* Encounters *)

\* the callback of this step instantiated a new enemy
EnemyAppears == encounters' = encounters + 1

\* C13: every encounter starts in the player's turn: the callback that
\* instantiates a new enemy (entering a location, or the location view
\* after a Victory or a successful Flee) brings no enemy attack, and the
\* enemy waits for the player's turn-consuming action
C13_EncounterStartsInPlayerTurn ==
    [][EnemyAppears =>
          /\ turns' = turns
          /\ \A i \in 1..Len(log') : log'[i][1] # "attacks_you"]_vars

\* C14: after a successful Flee the location view shows with no enemy
\* present: the same Flee rolls and starts no new encounter
C14_FleeRollsNoEncounter ==
    [][(Len(log') >= 1 /\ log'[1] = <<"fled">>) =>
          /\ current_enemy' = NoEnemy
          /\ buttons' = "location"
          /\ encounters' = encounters]_vars

--------------------------------------------------------------------------
(* Defeat *)

\* C15: defeat is terminal: once the player's hp is 0 the game is over,
\* and from then on no field of the player changes and no combat action
\* takes effect
C15_DefeatIsTerminal ==
    [][/\ (player' # NoPlayer /\ player'.hp = 0) => buttons' = "over"
       /\ (player # NoPlayer /\ player.hp = 0) =>
              /\ player' = player
              /\ current_enemy' = current_enemy
              /\ turns' = turns
              /\ buttons' = "over"]_vars

\* C15's case: an enemy's attack has brought the player's hp to 0 and the
\* game is over
C15_Witness ==
    /\ player # NoPlayer
    /\ player.hp = 0
    /\ buttons = "over"
    /\ windows = << >>
    /\ \E i \in 1..Len(log) : log[i][1] = "attacks_you"

--------------------------------------------------------------------------
(* Searching the shrine of the forest and dropping items, with the count   *)
(* of the searches that granted the amulet                                 *)

\* the players of the equipment runs, walked to the forest
PlayersAtShrine == {[p EXCEPT !.location = "forest"] : p \in PlayersOutfitted}

InitSecret ==
    /\ player \in PlayersAtShrine
    /\ current_enemy = NoEnemy
    /\ buttons = "location"
    /\ windows = << >>
    /\ log = << >>
    /\ save_file = NoFile
    /\ encounters = 0
    /\ turns = 0
    /\ call = [op |-> None, granted |-> 0]

\* Search Area
SearchCall ==
    /\ buttons = "location"
    /\ world[player.location].secret # None
    /\ call.granted < MaxGrants
    /\ Commit(search_area(G))
    /\ call' = [op |-> "search",
                granted |-> call.granted
                              + (IF Len(player'.inventory) > Len(player.inventory) THEN 1 ELSE 0)]
    /\ UNCHANGED save_file

\* Inventory, the i-th line selected, Drop
DropCall ==
    /\ buttons = "location"
    /\ \E i \in 1..Len(player.inventory) :
         LET g == on_item_select(open_inventory_screen(G), 1, i)
         IN  /\ g.windows[1].sel # NoItem
             /\ Commit(drop_action(g, 1))
    /\ call' = [op |-> "drop", granted |-> call.granted]
    /\ UNCHANGED save_file

NextSecret == SearchCall \/ DropCall

SpecSecret == InitSecret /\ [][NextSecret]_vars

\* C16: the forest secret grants the Amulet of the Forest at most once per
\* game: over any sequence of searches and drops, once a search has granted
\* it no later search adds anything to the inventory
C16_AmuletGrantedOnce ==
    call.granted <= 1

--------------------------------------------------------------------------
(* Actions that cost no turn *)

\* the callback of this step was a cast refused for want of mana
CastRefused == log' = <<<<"not_enough_mana">>>>

\* neither fighter changed and no enemy attacked
NothingHappened ==
    /\ player' = player
    /\ current_enemy' = current_enemy
    /\ turns' = turns
    /\ buttons' = buttons

\* C17: choosing Magic or Use Item (a pop-up to pick from, or the notice
\* that there is no potion) and casting a spell with less mana than it
\* costs change no field of the player or the enemy and bring no enemy
\* attack
C17_FreeActionsChangeNothing ==
    [][(MagicButton \/ UseItemButton \/ CastRefused) => NothingHappened]_vars

\* C17's case: in combat the player picked a spell they could not pay
C17_Witness ==
    /\ buttons = "combat"
    /\ is_alive(current_enemy)
    /\ log = <<<<"not_enough_mana">>>>
    /\ player.mana = 10
    /\ windows = << >>

--------------------------------------------------------------------------
(* Loading a save document that names things the catalogs do not have *)

\* the names a document may list: catalog names, and one per list that no
\* catalog has
InventoryNamesDrawn == {"Health Potion", "Iron Sword", "Rusty Dagger"}
SpellNamesDrawn == {"Heal", "Fireball", "Lightning"}

\* the lists of at most MaxNames names
NameLists(S) == UNION {[1..k -> S] : k \in 0..MaxNames}

\* rpg_save.json of a new hero in town, its lists rewritten: the keys
\* from_dict reads, 'inventory', 'weapon' and 'spells' as drawn
EditedSave(inventory, weapon, sp) ==
    [name |-> "Hero", hp |-> 100, max_hp |-> 100, stamina |-> 50, max_stamina |-> 50,
     mana |-> 30, max_mana |-> 30, attack |-> 25, defense |-> 10, xp |-> 0,
     level |-> 1, location |-> "town",
     inventory |-> inventory, weapon |-> weapon, armor |-> None,
     quests |-> NoQuests,
     spells |-> sp]

InitLoad ==
    /\ player = NoPlayer
    /\ current_enemy = NoEnemy
    /\ buttons = "menu"
    /\ windows = << >>
    /\ log = << >>
    /\ \E inventory \in NameLists(InventoryNamesDrawn), sp \in NameLists(SpellNamesDrawn),
          weapon \in {None, "Iron Sword", "Rusty Dagger"} :
            save_file = EditedSave(inventory, weapon, sp)
    /\ encounters = 0
    /\ turns = 0
    /\ call = NoCall

NextLoad == LoadGameButton

SpecLoad == InitLoad /\ [][NextLoad]_vars

\* C18: after a load, every entry of the inventory is an item of the
\* catalog and every entry of the spell list is a spell of the catalog (no
\* None stands in for a name the catalog lacks), and the game shows the
\* location
C18_UnknownNamesAreDropped ==
    player # NoPlayer =>
        /\ buttons = "location"
        /\ \A i \in 1..Len(player.inventory) :
              player.inventory[i] # NoItem /\ player.inventory[i].name \in ItemNames
        /\ \A i \in 1..Len(player.spells) : player.spells[i] \in SpellNames

--------------------------------------------------------------------------
(* Moving about the world *)

\* the player of this step stands somewhere else after it
Moved == player # NoPlayer /\ player' # NoPlayer /\ player'.location # player.location

--------------------------------------------------------------------------
(* One fight, the Magic and Use Item buttons pressed as often as the game *)
(* lets them be pressed: each press opens one more pop-up                 *)

\* the game as Game.__init__ leaves it
Started ==
    [player |-> NoPlayer, current_enemy |-> NoEnemy, buttons |-> "menu",
     windows |-> << >>, log |-> << >>, encounters |-> 0, turns |-> 0]

\* New Game, then Go to the forest, where roll appeared
FirstFight(roll) == move_player(new_game(Started, None), "forest", roll)

InitFight ==
    \E roll \in world["forest"].enemies :
        /\ player = FirstFight(roll).player
        /\ current_enemy = FirstFight(roll).current_enemy
        /\ buttons = FirstFight(roll).buttons
        /\ windows = FirstFight(roll).windows
        /\ log = FirstFight(roll).log
        /\ encounters = FirstFight(roll).encounters
        /\ turns = FirstFight(roll).turns
        /\ save_file = NoFile
        /\ call = NoCall

MagicPressed ==
    /\ buttons = "combat"
    /\ Len(windows) < MaxPopUps
    /\ Commit(perform_action(G, "Magic", FALSE, None))
    /\ UNCHANGED <<save_file, call>>

UseItemPressed ==
    /\ buttons = "combat"
    /\ Len(windows) < MaxPopUps
    /\ Commit(perform_action(G, "Use Item", FALSE, None))
    /\ UNCHANGED <<save_file, call>>

NextFight ==
    \/ AttackButton \/ DefendButton \/ MagicPressed \/ UseItemPressed \/ FleeButton
    \/ SpellButton \/ PotionButton
    \/ CloseWindow

SpecFight == InitFight /\ [][NextFight]_vars

\* the player faces a living enemy, and the same enemy lives after the step
EnemyLeftAlive ==
    /\ buttons = "combat"
    /\ current_enemy # NoEnemy /\ is_alive(current_enemy)
    /\ encounters' = encounters
    /\ current_enemy' # NoEnemy /\ is_alive(current_enemy')

Logged(l, tag) == \E i \in 1..Len(l) : l[i][1] = tag

\* the step was an action that takes the player's turn
TurnTaken ==
    \/ AttackButton
    \/ DefendButton
    \/ SpellButton /\ Logged(log', "you_cast")
    \/ PotionButton /\ Logged(log', "used")
    \/ FleeButton /\ Logged(log', "failed_to_flee")

\* the attacks on the player the callback of this step logged
AttacksLogged == Cardinality({i \in 1..Len(log') : log'[i][1] = "attacks_you"})

\* C20: a non-lethal Attack, a Defend, a spell cast, a potion used and a
\* failed Flee that leave the current enemy alive bring exactly one attack
\* of that enemy on the player within the same callback; after a lethal
\* Attack or spell the only enemy that may attack is a new one
C20_OneEnemyAttackPerTurn ==
    [][/\ (TurnTaken /\ EnemyLeftAlive) =>
             /\ AttacksLogged = 1
             /\ turns' = turns + 1
             /\ log'[Len(log')][1] \in {"attacks_you", "game_over"}
       /\ ((AttackButton \/ SpellButton) /\ Logged(log', "defeated")) =>
             (AttacksLogged > 0 => encounters' = encounters + 1)]_vars

--------------------------------------------------------------------------
(* Quest rewards *)

\* how many Greatswords the player carries, how many times Fireball is known
Greatswords(p) == Cardinality({i \in 1..Len(p.inventory) : p.inventory[i].name = "Greatsword"})
Fireballs(p) == Cardinality({i \in 1..Len(p.spells) : p.spells[i] = "Fireball"})

\* what complete_quest hands out for q, counted on the player
Rewards(p, q) ==
    IF q = "Slay the Dragon" THEN Greatswords(p)
    ELSE IF q = "The Stolen Spellbook" THEN Fireballs(p)
    ELSE 0

\* q was open before the step and is completed after it
BecomesCompleted(q) ==
    /\ q \in DOMAIN QuestsHeld /\ q \in DOMAIN QuestsHeld'
    /\ ~QuestsHeld[q].completed
    /\ QuestsHeld'[q].completed

\* C21: of the hero who plays or lies saved (New Game starts another hero),
\* a step advances every quest held by at most one stage, gives no quest
\* up and leaves a completed quest as it is; while the player plays, the
\* reward of a quest (a Greatsword for Slay the Dragon, Fireball for The
\* Stolen Spellbook) is gained in exactly the steps that complete the
\* quest, one reward each, so at most once per quest
C21_RewardOnlyOnCompletion ==
    [][/\ ~NewGameButton =>
             /\ DOMAIN QuestsHeld \subseteq DOMAIN QuestsHeld'
             /\ \A q \in DOMAIN QuestsHeld :
                   /\ QuestsHeld'[q].current_stage <= QuestsHeld[q].current_stage + 1
                   /\ QuestsHeld[q].completed => QuestsHeld'[q] = QuestsHeld[q]
       /\ (player # NoPlayer /\ player' # NoPlayer) =>
             \A q \in QuestNames :
                 /\ BecomesCompleted(q) => Rewards(player', q) = Rewards(player, q) + 1
                 /\ ~BecomesCompleted(q) => Rewards(player', q) <= Rewards(player, q)]_vars

\* C21's case: the Dragon fell to a player on the last stage of Slay the
\* Dragon; the quest is completed and the Greatsword is in the inventory
C21_Witness ==
    /\ player # NoPlayer
    /\ "Slay the Dragon" \in DOMAIN player.quests
    /\ player.quests["Slay the Dragon"].completed
    /\ Greatswords(player) = 1
    /\ Logged(log, "defeated")

--------------------------------------------------------------------------
(* The enemy in front of the player *)

\* C22: the current enemy is absent or alive with hp > 0, and one of the
\* roster of the location the player is at; an encounter starts with the
\* enemy at the hp of its template, and only at a location with a roster
C22_EnemyAliveAndOfTheRoster ==
    [][/\ current_enemy' # NoEnemy =>
             /\ player' # NoPlayer
             /\ is_alive(current_enemy') /\ current_enemy'.hp > 0
             /\ current_enemy'.name \in world[player'.location].enemies
       /\ current_enemy' = NoEnemy => buttons' # "combat"
       /\ EnemyAppears =>
             /\ current_enemy' # NoEnemy
             /\ current_enemy'.hp = enemies[current_enemy'.name].hp
             /\ current_enemy'.hp = current_enemy'.max_hp
             /\ world[player'.location].enemies # {}
             /\ player'.location # "town"]_vars

\* C22's case: a victory went straight on to the next encounter, and the
\* new enemy stands untouched
C22_Witness ==
    /\ buttons = "combat"
    /\ Logged(log, "defeated")
    /\ Logged(log, "appears")
    /\ is_alive(current_enemy)
    /\ current_enemy.name \in world[player.location].enemies
    /\ current_enemy.hp = enemies[current_enemy.name].hp
    /\ encounters = 2

--------------------------------------------------------------------------
(* The ranges of hp and mana *)

\* the spells of p that p can pay for
Affordable(p) == {p.spells[i] : i \in {j \in 1..Len(p.spells) : p.mana >= spells[p.spells[j]].mana_cost}}

\* C23: the player's hp stays within 0..max_hp and the mana within
\* 0..max_mana, whatever potion or spell heals; a step that takes mana
\* takes the cost of a spell the player knows and could pay
C23_HpAndManaInRange ==
    [][/\ player' # NoPlayer =>
             /\ 0 <= player'.hp /\ player'.hp <= player'.max_hp
             /\ 0 <= player'.mana /\ player'.mana <= player'.max_mana
       /\ (player # NoPlayer /\ player' # NoPlayer /\ player'.mana < player.mana) =>
             \E s \in Affordable(player) : player'.mana = player.mana - spells[s].mana_cost]_vars

\* C23's case: a player at full hp cast Heal; the mana is paid and the hp
\* is no higher than max_hp
C23_Witness ==
    /\ player # NoPlayer
    /\ log # << >> /\ log[1] = <<"you_cast", "Heal">>
    /\ player.mana = player.max_mana - spells["Heal"].mana_cost
    /\ player.hp = player.max_hp

--------------------------------------------------------------------------
(* The range of xp *)

\* C24: a player whose xp was below level * 100 has, after any xp award,
\* 0 <= xp < level * 100 for the level the award left, also when the one
\* award is larger than the threshold of the level
C24_XpBelowThreshold ==
    call.op = "gain_xp" =>
        /\ call.before.xp < call.before.level * 100
        /\ 0 <= player.xp
        /\ player.xp < player.level * 100

\* C24's case: one award of more than the whole threshold
C24_Witness ==
    /\ call.op = "gain_xp"
    /\ call.arg > call.before.level * 100
    /\ call.before.xp > 0
    /\ player.level = call.before.level + 1
    /\ player.xp < player.level * 100

--------------------------------------------------------------------------
(* Potions *)

\* the step raised the player's hp or stamina
Restored ==
    /\ player # NoPlayer /\ player' # NoPlayer
    /\ player'.hp > player.hp \/ player'.stamina > player.stamina

\* the step took one potion the player held out of the inventory
PotionSpent ==
    \E i \in 1..Len(player.inventory) :
        /\ IsPotion(player.inventory[i])
        /\ player'.inventory = remove_item(player, player.inventory[i]).inventory

\* C25: a potion raises hp or stamina only in a step that finds it in the
\* inventory and removes it there, however many selection windows were
\* opened before the choice: no potion acts twice
C25_PotionActsOnce ==
    [][((PotionButton \/ UseButton) /\ Restored) => PotionSpent]_vars

--------------------------------------------------------------------------
(* Ways on *)

\* the locations a Go button of the current location leads to
WaysOn == world[player.location].exits \ {player.location}

\* C26: whenever the player is alive and no combat is in progress, the
\* location view offers at least one move to another location
C26_AMoveIsAlwaysOffered ==
    (player # NoPlayer /\ is_alive(player) /\ buttons = "location" /\ current_enemy = NoEnemy)
        => WaysOn # {}

==========================================================================
